---- MODULE Spec2Model ----
(***************************************************************************)
(* Model of server.py (Portier demo relying party): the /login and /verify *)
(* handlers, discover_keys(), get_verified_email() and the module-level    *)
(* NONCES dict.  Request handlers run on threads; a step of the model is   *)
(* one stretch of a handler between two accesses to shared state (the      *)
(* global name NONCES, the dict objects it has been bound to, the network, *)
(* the clock).                                                             *)
(***************************************************************************)
EXTENDS Integers, Sequences, FiniteSets, TLC

\* ---------------------------------------------------------------- bounds
MaxRequests == 3      \* requests (login or verify) started in a behaviour
MaxNonces == 2        \* nonces uuid4() hands out in a behaviour
MaxTicks == 1         \* clock advances in a behaviour
MaxKeys == 2          \* entries of a JWK Set document

\* ------------------------------------------------------ program constants
NonceTTL == 1800      \* timedelta(minutes=30), in seconds
Leeway == 180         \* leeway=3 * 60

Threads == {1, 2}
Nonces == 1 .. MaxNonces
DictIds == 0 .. Cardinality(Threads)
TickSteps == {NonceTTL, NonceTTL + 1}
TzOffsets == {0, 3600}

RpOrigin == "https://rp.example"
PortierOrigin == "https://broker.example"
OtherOrigin == "https://evil.example"

EmptyDict == [k \in {} |-> 0]

VARIABLES
    now,        \* true UTC time, seconds since the epoch
    ticks,      \* number of clock advances so far
    tzOffset,   \* UTC offset of the server's local time zone, seconds
    NONCES,     \* the dict object the global name NONCES is bound to
    heap,       \* dict objects: DictId -> (nonce -> expiry timestamp)
    pc,         \* per thread: position in its handler
    loc,        \* per thread: the handler's local variables
    result,     \* the response going out in this step, if a request just finished
    nreq,       \* requests started
    minted,     \* nonces handed out by uuid4() so far
    issued,     \* history: nonce -> expiry, as login() computed them
    spent,      \* history: per nonce, verifications that returned an email with it
    served      \* history: the kids discover_keys() has returned so far

vars ==
    <<now, ticks, tzOffset, NONCES, heap, pc, loc, result, nreq, minted, issued, spent,
      served>>

\* ------------------------------------------------------------- dict helpers
Has(d, k) == k \in DOMAIN d
DictSet(d, k, v) == [x \in DOMAIN d \cup {k} |-> IF x = k THEN v ELSE d[x]]
DictDel(d, k) == [x \in DOMAIN d \ {k} |-> d[x]]
DictLen(d) == Cardinality(DOMAIN d)

\* datetime.utcnow() is a naive datetime holding UTC wall-clock time;
\* .timestamp() on a naive datetime reads it as local time.
UtcNowTimestamp(t, off) == t - off

\* Mutant of Expiry: the 30 minutes are not added.
ExpiryNoTTL(t, off) == UtcNowTimestamp(t, off)

\* (datetime.utcnow() + timedelta(minutes=30)).timestamp()
Expiry(t, off) == UtcNowTimestamp(t, off) + NonceTTL

\* Mutant of Purge: nothing is dropped.
PurgeKeepsAll(d, ts) == d

\* Mutant of Purge: an entry expiring at this very second is dropped too.
PurgeStrict(d, ts) == [n \in {k \in DOMAIN d : d[k] > ts} |-> d[n]]

\* The dict comprehension of the garbage collection.
Purge(d, ts) == [n \in {k \in DOMAIN d : d[k] >= ts} |-> d[n]]

\* ------------------------------------------------------------------ inputs
Kids == {"k1", "k2"}
KeyMaterial == {1, 2}
MatOf(kid) == IF kid = "k1" THEN 1 ELSE 2

\* A subject is a string, kept as its sequence of characters.
GoodSubjects == {<<"a", "@", "b">>, <<"c", "@", "d">>}
BadSubjects == {<<"a", "b">>, <<"@", "b">>, <<"a", "@">>, <<"\n", "@", "b">>}

\* An aud claim is a JSON string or a JSON array of strings.
AudStr(a) == [form |-> "str", v |-> <<a>>]
AudList(as) == [form |-> "list", v |-> as]

\* The claims of a well-formed identity token; the time claims are written
\* relative to the moment the token is presented (see ClaimsAt).
GoodClaims(n, s) ==
    [aud |-> AudStr(RpOrigin), iss |-> PortierOrigin, exp |-> 300, iat |-> 0,
     sub |-> s, nonce |-> n]

ClaimVariants(c) ==
    {c}
    \cup {DictDel(c, k) : k \in DOMAIN c}
    \cup {DictSet(c, "aud", AudStr(OtherOrigin)), DictSet(c, "iss", OtherOrigin)}
    \cup {DictSet(c, "aud", AudList(<<OtherOrigin, RpOrigin>>)),
          DictSet(c, "aud", AudList(<<OtherOrigin>>))}
    \cup {DictSet(c, "exp", 0 - Leeway), DictSet(c, "exp", 0 - Leeway - 1)}
    \cup {DictSet(c, "iat", Leeway), DictSet(c, "iat", Leeway + 1)}
    \cup {DictSet(c, "nbf", Leeway), DictSet(c, "nbf", Leeway + 1)}
    \cup {DictSet(c, "sub", s) : s \in BadSubjects}

BaseTokens ==
    {[hdr |-> "ok", kid |-> "k1", alg |-> "RS256", sig |-> MatOf("k1"),
      claims |-> GoodClaims(n, s)] : n \in Nonces, s \in GoodSubjects}

\* hdr: "ok" a JSON object with a kid; "nokid" a JSON object without one;
\* "garbage" a first segment that is not base64url-encoded JSON.
\* sig: the key material whose private half produced the signature.
TokenVariants(b) ==
    {[b EXCEPT !.claims = c] : c \in ClaimVariants(b.claims)}
    \cup {[b EXCEPT !.claims = DictSet(c, "sub", <<"a", "b">>)] :
             c \in ClaimVariants(b.claims)}
    \cup {[b EXCEPT !.hdr = h] : h \in {"garbage", "nokid"}}
    \cup {[b EXCEPT !.kid = "k2"], [b EXCEPT !.kid = "k2", !.sig = MatOf("k2")],
          [b EXCEPT !.sig = MatOf("k2")], [b EXCEPT !.alg = "HS256"]}

Tokens == UNION {TokenVariants(b) : b \in BaseTokens}

\* What the first segment of the request's token is (the hdr of a token).
HeaderKinds == {"ok", "garbage", "nokid"}

\* A JWK as deserialized from the JWK Set: kid, e/n (the key material) and,
\* when declared, alg.
JwkEntries ==
    {[kid |-> k, alg |-> a, mat |-> MatOf(k)] : k \in Kids, a \in {"RS256", "ES256"}}
    \cup {[kid |-> k, mat |-> MatOf(k)] : k \in Kids}

KeySets == UNION {[1 .. n -> JwkEntries] : n \in 0 .. MaxKeys}

\* What the broker answers to the two GETs of discovery.
ConfigResponses == {"urlerror", "badjson", "nojwks", "ok"}
JwksResponses ==
    {[kind |-> k, keys |-> <<>>] : k \in {"urlerror", "badjson", "nokeys"}}
    \cup {[kind |-> "keys", keys |-> ks] : ks \in KeySets}

\* -------------------------------------------------------------- outcomes
\* What a call raised or returned: ok, or the exception class and message.
Raise(cls, m, g) == [ok |-> FALSE, exc |-> cls, msg |-> m, gate |-> g]
Return(g) == [ok |-> TRUE, exc |-> "none", msg |-> "", gate |-> g]

NoResult ==
    [kind |-> "none", exc |-> "none", msg |-> "", gate |-> "", email |-> <<>>,
     nonce |-> {}, fetched |-> <<>>, hdr |-> ""]

\* verify(): RuntimeError becomes the error page with status 400, a return
\* value becomes the verified page; any other exception leaves the handler.
Respond(out, email, nonce, fetched, hdr) ==
    [kind |-> IF out.ok THEN "verified"
              ELSE IF out.exc = "RuntimeError" THEN "error400" ELSE "unhandled",
     exc |-> out.exc, msg |-> out.msg, gate |-> out.gate,
     email |-> IF out.ok THEN email ELSE <<>>,
     nonce |-> nonce, fetched |-> fetched, hdr |-> hdr]

\* ---------------------------------------------------------- discover_keys
\* The first GET and the jwks_uri check.
FetchConfigOutcome(resp) ==
    IF resp = "urlerror" THEN Raise("URLError", "urlopen", "discovery")
    ELSE IF resp = "badjson" THEN Raise("ValueError", "json.loads", "discovery")
    ELSE IF resp = "nojwks"
    THEN Raise("RuntimeError", "No jwks_uri in discovery document", "discovery")
    ELSE Return("discovery")

RECURSIVE KeysOf(_)
\* {key['kid']: jwk_to_rsa(key) for key in jwks['keys'] if key['alg'] == 'RS256'}
KeysOf(ks) ==
    IF ks = <<>> THEN EmptyDict
    ELSE LET rest == KeysOf(SubSeq(ks, 1, Len(ks) - 1))
             key == ks[Len(ks)]
         IN  IF key.alg = "RS256" THEN DictSet(rest, key.kid, key.mat) ELSE rest

\* The second GET, the keys check and the comprehension.
FetchJwksOutcome(resp) ==
    IF resp.kind = "urlerror" THEN Raise("URLError", "urlopen", "discovery")
    ELSE IF resp.kind = "badjson" THEN Raise("ValueError", "json.loads", "discovery")
    ELSE IF resp.kind = "nokeys"
    THEN Raise("RuntimeError", "No keys found in JWK Set", "discovery")
    ELSE IF \E i \in 1 .. Len(resp.keys) : ~Has(resp.keys[i], "alg")
    THEN Raise("KeyError", "alg", "discovery")
    ELSE Return("discovery")

\* ------------------------------------------------------ get_verified_email
\* The claims as they stand in the token presented at time t.
ClaimsAt(c, t) ==
    [k \in DOMAIN c |-> IF k \in {"exp", "iat", "nbf"} THEN t + c[k] ELSE c[k]]

\* PyJWT's audience check: a string aud is taken as a one-element list,
\* and the expected audience must be an element of the list.
AudienceOk(aud, audience) == \E i \in 1 .. Len(aud.v) : aud.v[i] = audience

\* Mutant of ExpOk: a token expiring exactly at the leeway boundary is
\* refused.
ExpOkStrict(exp, t) == exp > t - Leeway

\* PyJWT's expiry check with leeway: raises when exp < now - leeway.
ExpOk(exp, t) == ~(exp < t - Leeway)

\* jwt.decode(token, pub_key, algorithms=['RS256'], audience=..., issuer=...,
\* leeway=180): TRUE when it returns the payload, FALSE when it raises.
\* exp, iat and nbf are checked when present; iss and aud must be present.
JwtDecodeOk(tok, pubKey, payload, t) ==
    /\ tok.alg = "RS256"
    /\ tok.sig = pubKey
    /\ Has(payload, "iat") => payload.iat <= t + Leeway
    /\ Has(payload, "nbf") => payload.nbf <= t + Leeway
    /\ Has(payload, "exp") => ExpOk(payload.exp, t)
    /\ Has(payload, "iss") /\ payload.iss = PortierOrigin
    /\ Has(payload, "aud") /\ AudienceOk(payload.aud, RpOrigin)

\* Mutant of LooksLikeEmail: the pattern is '.*@.*'.
LooksLikeEmailLoose(s) ==
    \E i \in 1 .. Len(s) : s[i] = "@"

\* re.match('.+@.+', subject)
LooksLikeEmail(s) ==
    \E i \in 2 .. Len(s) - 1 :
        /\ s[i] = "@"
        /\ \A j \in 1 .. i - 1 : s[j] # "\n"
        /\ s[i + 1] # "\n"

\* Mutant of Gates: the subject is looked at before jwt.decode() runs.
GatesSubFirst(tok, keys, t) ==
    LET payload == ClaimsAt(tok.claims, t) IN
    IF tok.hdr = "garbage" THEN Raise("ValueError", "header", "header")
    ELSE IF tok.hdr = "nokid" THEN Raise("KeyError", "kid", "header")
    ELSE IF ~Has(keys, tok.kid)
    THEN Raise("RuntimeError", "Cannot find key with ID", "kid")
    ELSE IF ~Has(payload, "sub") THEN Raise("KeyError", "sub", "sub")
    ELSE IF ~LooksLikeEmail(payload.sub)
    THEN Raise("RuntimeError", "Invalid email address", "sub")
    ELSE IF ~JwtDecodeOk(tok, keys[tok.kid], payload, t)
    THEN Raise("RuntimeError", "Invalid JWT", "jwt")
    ELSE Return("sub")

\* Mutant of Gates: jwt.decode() runs before the key is looked up, so an
\* unknown kid surfaces as an invalid JWT.
GatesDecodeFirst(tok, keys, t) ==
    LET payload == ClaimsAt(tok.claims, t) IN
    IF tok.hdr = "garbage" THEN Raise("ValueError", "header", "header")
    ELSE IF tok.hdr = "nokid" THEN Raise("KeyError", "kid", "header")
    ELSE IF ~Has(keys, tok.kid) \/ ~JwtDecodeOk(tok, keys[tok.kid], payload, t)
    THEN Raise("RuntimeError", "Invalid JWT", "jwt")
    ELSE IF ~Has(payload, "sub") THEN Raise("KeyError", "sub", "sub")
    ELSE IF ~LooksLikeEmail(payload.sub)
    THEN Raise("RuntimeError", "Invalid email address", "sub")
    ELSE Return("sub")

\* Everything between discovery and the garbage collection.
Gates(tok, keys, t) ==
    LET payload == ClaimsAt(tok.claims, t) IN
    IF tok.hdr = "garbage" THEN Raise("ValueError", "header", "header")
    ELSE IF tok.hdr = "nokid" THEN Raise("KeyError", "kid", "header")
    ELSE IF ~Has(keys, tok.kid)
    THEN Raise("RuntimeError", "Cannot find key with ID", "kid")
    ELSE IF ~JwtDecodeOk(tok, keys[tok.kid], payload, t)
    THEN Raise("RuntimeError", "Invalid JWT", "jwt")
    ELSE IF ~Has(payload, "sub") THEN Raise("KeyError", "sub", "sub")
    ELSE IF ~LooksLikeEmail(payload.sub)
    THEN Raise("RuntimeError", "Invalid email address", "sub")
    ELSE Return("sub")

\* Mutant of PopOutcome: the except clause misses the KeyError of a payload
\* without a nonce.
PopOutcomeLeaky(d, payload) ==
    IF ~Has(payload, "nonce") THEN Raise("KeyError", "nonce", "nonce")
    ELSE IF Has(d, payload.nonce) THEN Return("nonce")
    ELSE Raise("RuntimeError", "Invalid or expired nonce", "nonce")

\* NONCES.pop(payload['nonce']) on dict d, with its except clause.
PopOutcome(d, payload) ==
    IF Has(payload, "nonce") /\ Has(d, payload.nonce)
    THEN Return("nonce")
    ELSE Raise("RuntimeError", "Invalid or expired nonce", "nonce")

\* Mutant of PopDict: the nonce is looked up but left in the dict.
PopDictKeeps(d, payload) == d

\* The dict after NONCES.pop(payload['nonce']).
PopDict(d, payload) ==
    IF Has(payload, "nonce") THEN DictDel(d, payload.nonce) ELSE d

\* ------------------------------------------------------------- the threads
IdleLocals ==
    [keys |-> EmptyDict,     \* keys, as discover_keys() returned it
     got |-> {},             \* history: the kids discover_keys() returned to this call
     fetched |-> <<>>,       \* the GETs this call has made
     payload |-> EmptyDict,  \* payload, as jwt.decode() returned it
     mint |-> EmptyDict,     \* login(): nonce -> expiry.timestamp()
     ref |-> {},             \* the dict object this thread holds a reference to
     used |-> 0,             \* the dict iterator's recorded size of that dict
     built |-> EmptyDict,    \* the dict the comprehension has built
     live |-> FALSE]         \* history: the nonce was present and unexpired at the purge

\* Dict objects something still refers to.
Referenced(g, l) == {g} \cup UNION {l[t].ref : t \in Threads}

\* Objects nothing refers to are gone.
Collect(h, g, l) == [d \in DictIds |-> IF d \in Referenced(g, l) THEN h[d] ELSE EmptyDict]

FreshDict(l) ==
    CHOOSE d \in DictIds :
        /\ d \notin UNION {l[t].ref : t \in Threads}
        /\ \A e \in DictIds : e < d => e \in UNION {l[t].ref : t \in Threads}

Init ==
    /\ now = 0
    /\ ticks = 0
    /\ tzOffset \in TzOffsets
    /\ NONCES = 0
    /\ heap = [d \in DictIds |-> EmptyDict]
    /\ pc = [t \in Threads |-> "idle"]
    /\ loc = [t \in Threads |-> IdleLocals]
    /\ result = NoResult
    /\ nreq = 0
    /\ minted = 0
    /\ issued = EmptyDict
    /\ spent = [n \in Nonces |-> 0]
    /\ served = {}

\* A request ends: the thread's locals die, its response goes out and the
\* thread waits for the next request.
Finish(t, res) ==
    /\ pc' = [pc EXCEPT ![t] = "idle"]
    /\ loc' = [loc EXCEPT ![t] = IdleLocals]
    /\ result' = res

\* Between the return of discover_keys() and the subject check a thread
\* reads and writes nothing but its own locals, so that stretch is taken in
\* one piece: nothing else moves while a thread stands before it.
Quiet == \A u \in Threads : pc[u] # "gates"

\* The server hands a request to its first idle worker thread.
Dispatch(t) == Quiet /\ pc[t] = "idle" /\ \A u \in Threads : u < t => pc[u] # "idle"

\* The clock advances.
Tick ==
    /\ Quiet
    /\ ticks < MaxTicks
    /\ \E d \in TickSteps : now' = now + d
    /\ ticks' = ticks + 1
    /\ result' = NoResult
    /\ UNCHANGED <<tzOffset, NONCES, heap, pc, loc, nreq, minted, issued, spent, served>>

\* login(), lines 42-50 up to the load of the global NONCES: the nonce, its
\* expiry, and the dict the entry will go to.  uuid4() returns a value it
\* has not returned before.
Login(t) ==
    /\ Dispatch(t)
    /\ nreq < MaxRequests
    /\ minted < MaxNonces
    /\ nreq' = nreq + 1
    /\ minted' = minted + 1
    /\ pc' = [pc EXCEPT ![t] = "login_store"]
    /\ loc' = [loc EXCEPT
                 ![t].mint = DictSet(EmptyDict, minted + 1, Expiry(now, tzOffset)),
                 ![t].ref = {NONCES}]
    /\ issued' = DictSet(issued, minted + 1, Expiry(now, tzOffset))
    /\ result' = NoResult
    /\ UNCHANGED <<now, ticks, tzOffset, NONCES, heap, spent, served>>

\* login(), line 50: the entry is stored in that dict; lines 53-64: the
\* redirect.
LoginStore(t) ==
    /\ Quiet
    /\ pc[t] = "login_store"
    /\ LET d == CHOOSE r \in loc[t].ref : TRUE
           n == CHOOSE k \in DOMAIN loc[t].mint : TRUE
           l2 == [loc EXCEPT ![t] = IdleLocals]
       IN  /\ heap' = Collect([heap EXCEPT ![d] = DictSet(heap[d], n, loc[t].mint[n])],
                              NONCES, l2)
           /\ Finish(t, [NoResult EXCEPT !.kind = "redirect", !.nonce = {n}])
    /\ UNCHANGED <<now, ticks, tzOffset, NONCES, nreq, minted, issued, spent, served>>

\* One GET of a call: the URL asked for and the kind of answer it got.
Get(u, answer) == [url |-> u, got |-> answer]

\* Mutant of DiscoverKeys: the JWK Set is requested before the discovery
\* document is looked at.
DiscoverKeysEager(conf, jwks) ==
    LET first == FetchConfigOutcome(conf)
        second == FetchJwksOutcome(jwks)
        gets == <<Get("openid-configuration", conf), Get("jwks_uri", jwks.kind)>>
    IN  IF ~first.ok THEN [out |-> first, fetched |-> gets, keys |-> EmptyDict]
        ELSE [out |-> second, fetched |-> gets,
              keys |-> IF second.ok THEN KeysOf(jwks.keys) ELSE EmptyDict]

\* discover_keys(broker): what it raises or returns, and the GETs it makes,
\* given the broker's answers.
DiscoverKeys(conf, jwks) ==
    LET first == FetchConfigOutcome(conf) IN
    IF ~first.ok
    THEN [out |-> first, fetched |-> <<Get("openid-configuration", conf)>>,
          keys |-> EmptyDict]
    ELSE LET second == FetchJwksOutcome(jwks) IN
         [out |-> second,
          fetched |-> <<Get("openid-configuration", conf), Get("jwks_uri", jwks.kind)>>,
          keys |-> IF second.ok THEN KeysOf(jwks.keys) ELSE EmptyDict]

\* Mutant of KeysInUse: keys of earlier calls are kept and looked up too.
KeysInUseCached(keys, earlier) ==
    [k \in DOMAIN keys \cup earlier |-> IF Has(keys, k) THEN keys[k] ELSE MatOf(k)]

\* Line 122: keys is a local of the call, bound to what discover_keys() has
\* just returned; what earlier calls were served plays no part.
KeysInUse(keys, earlier) == keys

\* verify() calls get_verified_email(), which calls discover_keys()
\* (lines 70-73, 122, 93-110).  Nothing has read the request's token yet;
\* a response that goes out here records what its header was.
Verify(t) ==
    /\ Dispatch(t)
    /\ nreq < MaxRequests
    /\ nreq' = nreq + 1
    /\ \E conf \in ConfigResponses :
       \E jwks \in IF FetchConfigOutcome(conf).ok THEN JwksResponses
                   ELSE {[kind |-> "none", keys |-> <<>>]} :
         LET dk == DiscoverKeys(conf, jwks) IN
         IF dk.out.ok
         THEN /\ pc' = [pc EXCEPT ![t] = "gates"]
              /\ loc' = [loc EXCEPT ![t].fetched = dk.fetched,
                                    ![t].keys = KeysInUse(dk.keys, served),
                                    ![t].got = DOMAIN dk.keys]
              /\ served' = served \cup DOMAIN dk.keys
              /\ result' = NoResult
         ELSE /\ \E h \in HeaderKinds :
                    Finish(t, Respond(dk.out, <<>>, {}, dk.fetched, h))
              /\ served' = served
    /\ UNCHANGED <<now, ticks, tzOffset, NONCES, heap, minted, issued, spent>>

NonceOf(payload) == IF Has(payload, "nonce") THEN {payload.nonce} ELSE {}

\* The claims the code reads after jwt.decode() has returned.
Rest(payload) == [k \in DOMAIN payload \cap {"sub", "nonce"} |-> payload[k]]

\* Mutant of CheckToken: the nonce is invalidated as soon as the token is
\* read, before its signature and claims are checked.
CheckTokenNonceFirst(t) ==
    /\ pc[t] = "gates"
    /\ \E tok \in Tokens :
         LET out == Gates(tok, loc[t].keys, now)
             payload == ClaimsAt(tok.claims, now)
         IN  /\ heap' = [heap EXCEPT ![NONCES] = PopDict(heap[NONCES], payload)]
             /\ IF out.ok
                THEN /\ pc' = [pc EXCEPT ![t] = "purge_iter"]
                     /\ loc' = [loc EXCEPT ![t].payload = Rest(payload),
                                           ![t].keys = EmptyDict, ![t].got = {}]
                     /\ result' = NoResult
                ELSE Finish(t, Respond(out, <<>>, NonceOf(payload), loc[t].fetched, tok.hdr))
    /\ UNCHANGED <<now, ticks, tzOffset, NONCES, nreq, minted, issued, spent, served>>

\* get_verified_email(), lines 124-163: header, key lookup, jwt.decode and
\* the subject check.  The token is the request's; nothing reads it earlier.
CheckToken(t) ==
    /\ pc[t] = "gates"
    /\ \E tok \in Tokens :
         LET out == Gates(tok, loc[t].keys, now)
             payload == ClaimsAt(tok.claims, now)
         IN  IF out.ok
             THEN /\ pc' = [pc EXCEPT ![t] = "purge_iter"]
                  /\ loc' = [loc EXCEPT ![t].payload = Rest(payload), ![t].keys = EmptyDict,
                                        ![t].got = {}]
                  /\ result' = NoResult
             ELSE Finish(t, Respond(out, <<>>, NonceOf(payload), loc[t].fetched, tok.hdr))
    /\ UNCHANGED <<now, ticks, tzOffset, NONCES, heap, nreq, minted, issued, spent, served>>

\* Line 167: NONCES.items() of the dict the global names, and its iterator.
PurgeIter(t) ==
    /\ Quiet
    /\ pc[t] = "purge_iter"
    /\ pc' = [pc EXCEPT ![t] = "purge_build"]
    /\ loc' = [loc EXCEPT ![t].ref = {NONCES}, ![t].used = DictLen(heap[NONCES])]
    /\ result' = NoResult
    /\ UNCHANGED <<now, ticks, tzOffset, NONCES, heap, nreq, minted, issued, spent, served>>

\* Lines 167-168: the comprehension runs over the iterator.  A dict whose
\* size is no longer the one the iterator recorded makes it raise
\* RuntimeError('dictionary changed size during iteration').
PurgeBuild(t) ==
    /\ Quiet
    /\ pc[t] = "purge_build"
    /\ LET d == heap[CHOOSE r \in loc[t].ref : TRUE]
           ts == UtcNowTimestamp(now, tzOffset)
           p == loc[t].payload
       IN  IF DictLen(d) # loc[t].used
           THEN /\ Finish(t, Respond(Raise("RuntimeError", "dictionary changed size", "purge"),
                                     <<>>, NonceOf(p), loc[t].fetched, "ok"))
                /\ heap' = Collect(heap, NONCES, [loc EXCEPT ![t] = IdleLocals])
           ELSE /\ pc' = [pc EXCEPT ![t] = "purge_assign"]
                /\ loc' = [loc EXCEPT ![t].built = Purge(d, ts), ![t].ref = {},
                                      ![t].used = 0,
                                      ![t].live = /\ Has(p, "nonce")
                                                  /\ Has(d, p.nonce)
                                                  /\ ~(d[p.nonce] < ts)]
                /\ heap' = Collect(heap, NONCES, loc')
                /\ result' = NoResult
    /\ UNCHANGED <<now, ticks, tzOffset, NONCES, nreq, minted, issued, spent, served>>

\* Line 167: the global name NONCES is bound to the new dict.
PurgeAssign(t) ==
    /\ Quiet
    /\ pc[t] = "purge_assign"
    /\ LET d == FreshDict(loc)
           l2 == [loc EXCEPT ![t].built = EmptyDict]
       IN  /\ NONCES' = d
           /\ loc' = l2
           /\ heap' = Collect([heap EXCEPT ![d] = loc[t].built], d, l2)
    /\ pc' = [pc EXCEPT ![t] = "pop_load"]
    /\ result' = NoResult
    /\ UNCHANGED <<now, ticks, tzOffset, nreq, minted, issued, spent, served>>

\* Line 172: the global NONCES is loaded ...
PopLoad(t) ==
    /\ Quiet
    /\ pc[t] = "pop_load"
    /\ pc' = [pc EXCEPT ![t] = "pop"]
    /\ loc' = [loc EXCEPT ![t].ref = {NONCES}]
    /\ result' = NoResult
    /\ UNCHANGED <<now, ticks, tzOffset, NONCES, heap, nreq, minted, issued, spent, served>>

\* ... and payload['nonce'] is popped from that dict (lines 172-176);
\* verify() renders the outcome (lines 74-81).
Pop(t) ==
    /\ Quiet
    /\ pc[t] = "pop"
    /\ LET r == CHOOSE x \in loc[t].ref : TRUE
           p == loc[t].payload
           out == PopOutcome(heap[r], p)
       IN  /\ heap' = Collect([heap EXCEPT ![r] = IF out.ok THEN PopDict(heap[r], p) ELSE heap[r]],
                              NONCES, [loc EXCEPT ![t] = IdleLocals])
           /\ Finish(t, Respond(out, p.sub, NonceOf(p), loc[t].fetched, "ok"))
           /\ spent' = IF out.ok THEN [spent EXCEPT ![p.nonce] = @ + 1] ELSE spent
    /\ UNCHANGED <<now, ticks, tzOffset, NONCES, nreq, minted, issued, served>>

Step(t) ==
    \/ Login(t)
    \/ LoginStore(t)
    \/ Verify(t)
    \/ CheckToken(t)
    \/ PurgeIter(t)
    \/ PurgeBuild(t)
    \/ PurgeAssign(t)
    \/ PopLoad(t)
    \/ Pop(t)

Next == Tick \/ \E t \in Threads : Step(t)

Spec == Init /\ [][Next]_vars

\* Requests handled one at a time: a thread moves only while every other
\* thread is idle.
Alone(t) == \A u \in Threads \ {t} : pc[u] = "idle"

SeqNext ==
    \/ Tick
    \/ \E t \in Threads :
          \/ Alone(t) /\ Login(t)
          \/ Alone(t) /\ LoginStore(t)
          \/ Alone(t) /\ Verify(t)
          \/ Alone(t) /\ CheckToken(t)
          \/ Alone(t) /\ PurgeIter(t)
          \/ Alone(t) /\ PurgeBuild(t)
          \/ Alone(t) /\ PurgeAssign(t)
          \/ Alone(t) /\ PopLoad(t)
          \/ Alone(t) /\ Pop(t)

SeqSpec == Init /\ [][SeqNext]_vars

TypeOK ==
    /\ now \in Nat
    /\ ticks \in 0 .. MaxTicks
    /\ NONCES \in DictIds
    /\ nreq \in 0 .. MaxRequests
    /\ minted \in 0 .. MaxNonces
    /\ served \subseteq Kids
    /\ \A t \in Threads : Cardinality(loc[t].ref) <= 1

\* =================================================================== claims
NonceError == "Invalid or expired nonce"

\* Thread t takes the pop step of its verification.
PopStep(t) == pc[t] = "pop" /\ pc'[t] = "idle"

\* The response of the request that just finished is the nonce error page.
IsNonceError(r) == r.kind = "error400" /\ r.exc = "RuntimeError" /\ r.msg = NonceError

C2_ConcurrentReplay == \A n \in Nonces : spent[n] <= 1

\* C3: the steps of a verification before the nonce gate (discovery, header,
\* key lookup, jwt.decode, subject check) leave the global NONCES and every
\* dict untouched, whether they pass or reject.
C3_NonceGateLast ==
    [][\A t \in Threads :
          (\/ pc[t] = "gates" /\ pc'[t] # "gates"
           \/ pc[t] = "idle" /\ nreq' # nreq /\ minted' = minted)
              => (NONCES' = NONCES /\ heap' = heap)]_vars

\* C3 witness: a token was rejected by jwt.decode() and the nonce it names
\* is still in the registry.
C3_Witness ==
    /\ result.kind = "error400"
    /\ result.gate = "jwt"
    /\ \E n \in result.nonce : Has(heap[NONCES], n)

\* C4: with requests handled one at a time, a verification that passed every
\* other gate with a nonce login() minted, not yet spent and unexpired at the
\* purge, finds it alive, returns exactly the token's sub and spends the
\* nonce; a verification with a spent nonce ends with the nonce error.
C4_SuccessThenReplay ==
    /\ [][\A t \in Threads :
            (/\ pc[t] = "purge_build" /\ pc'[t] # "purge_build"
             /\ Has(loc[t].payload, "nonce")
             /\ Has(issued, loc[t].payload.nonce)
             /\ spent[loc[t].payload.nonce] = 0
             /\ issued[loc[t].payload.nonce] >= UtcNowTimestamp(now, tzOffset))
                => (pc'[t] = "purge_assign" /\ loc'[t].live)]_vars
    /\ [][\A t \in Threads :
            (PopStep(t) /\ loc[t].live)
                => (/\ result'.kind = "verified"
                    /\ result'.email = loc[t].payload.sub
                    /\ spent'[loc[t].payload.nonce] = 1)]_vars
    /\ [][\A t \in Threads :
            (PopStep(t) /\ Has(loc[t].payload, "nonce") /\ spent[loc[t].payload.nonce] = 1)
                => IsNonceError(result')]_vars

\* C4 witness: the second of two verifications with the same nonce has just
\* been refused, the first having returned the email.
C4_Witness ==
    \E n \in Nonces :
        /\ Has(issued, n) /\ spent[n] = 1
        /\ IsNonceError(result) /\ result.nonce = {n}
        /\ nreq = 3

\* C5: with requests handled one at a time, the nonce gate lets a token
\* through exactly when its nonce was in the registry with expiry >= now at
\* the purge; in every other case (never minted, spent, expired, no nonce)
\* the answer is the same RuntimeError('Invalid or expired nonce').
C5_ConsumeOutcome ==
    [][\A t \in Threads :
          PopStep(t) => /\ (result'.kind = "verified") <=> loc[t].live
                        /\ ~loc[t].live => IsNonceError(result')]_vars

\* C5 witness: a minted, unspent nonce was refused because it had expired.
C5_Witness ==
    \E n \in Nonces :
        /\ Has(issued, n) /\ spent[n] = 0 /\ issued[n] < UtcNowTimestamp(now, tzOffset)
        /\ IsNonceError(result) /\ result.nonce = {n}

\* C6: a token that passes every other gate and carries no nonce claim is
\* verified.
C6_NonceOptional ==
    (result.gate = "nonce" /\ result.nonce = {}) => result.kind = "verified"

\* C7: every verification ends in the verified page or in the error page
\* with status 400, every failure being a RuntimeError, and no email comes
\* with an error.
C7_VerifyTotal ==
    /\ result.kind \in {"none", "redirect", "verified", "error400"}
    /\ result.kind = "error400" => result.email = <<>>

\* C8: whatever token is presented, if its header parses and names a kid
\* that is not in the discovered keys, the call fails at the key lookup with
\* 'Cannot find key with ID', before jwt.decode() is reached.
C8_UnknownKey ==
    \A t \in Threads :
        pc[t] = "gates" =>
            \A tok \in Tokens :
                (tok.hdr = "ok" /\ ~Has(loc[t].keys, tok.kid))
                    => Gates(tok, loc[t].keys, now)
                         = Raise("RuntimeError", "Cannot find key with ID", "kid")

\* C8 witness: a verification was refused with the unknown-key error.
C8_Witness ==
    /\ result.kind = "error400"
    /\ result.msg = "Cannot find key with ID"
    /\ result.gate = "kid"

\* The GETs of the verification that just finished and of those under way.
FetchLogs == {result.fetched} \cup {loc[t].fetched : t \in Threads}

\* C9: the JWK Set is requested only as the second GET of a call, after the
\* discovery document came back with a jwks_uri; a discovery document without
\* jwks_uri ends the call with the discovery error after that one GET.
C9_DiscoveryShortCircuit ==
    /\ \A f \in FetchLogs :
          /\ \A i \in 1 .. Len(f) :
                f[i].url = "jwks_uri" => (i = 2 /\ f[1] = Get("openid-configuration", "ok"))
          /\ (f # <<>> /\ f[1].got = "nojwks") => Len(f) = 1
    /\ (result.fetched # <<>> /\ result.fetched[1].got = "nojwks")
          => (/\ result.kind = "error400"
              /\ result.msg = "No jwks_uri in discovery document")

\* C9 witness: a verification ended on a discovery document without jwks_uri.
C9_Witness ==
    /\ result.msg = "No jwks_uri in discovery document"
    /\ result.fetched = <<Get("openid-configuration", "nojwks")>>

\* C10: every failure of discover_keys() reaches the caller as the one
\* exception class the verify handler catches.
C10_OneDiscoveryErrorClass ==
    result.gate = "discovery" => (result.exc = "RuntimeError" /\ result.kind = "error400")

\* C11: a token whose aud is anything but the string rp_origin, or whose
\* iss is anything but portier_origin, never passes the gates of
\* get_verified_email(), whichever keys the broker serves (so its nonce is
\* never reached).
C11_AudIssExact ==
    \A t \in Threads :
       pc[t] = "gates" =>
          \A tok \in Tokens :
             (\/ Has(tok.claims, "aud") /\ tok.claims.aud # AudStr(RpOrigin)
              \/ Has(tok.claims, "iss") /\ tok.claims.iss # PortierOrigin)
                 => ~Gates(tok, loc[t].keys, now).ok

\* The subject has an '@' with at least one character before and after it.
HasAtWithSegments(s) == \E i \in 2 .. Len(s) - 1 : s[i] = "@"

\* The call of thread t ends at the gates before the purge, at gate g.
EndsAtGate(t, g) == pc[t] = "gates" /\ pc'[t] = "idle" /\ result'.gate = g

\* C12: a token that passes the header, the key lookup and jwt.decode() and
\* whose sub has no '@' with a non-empty segment on each side is refused
\* with RuntimeError 'Invalid email address'; the response is the 400 error
\* page without an email, and the registry and the spent nonces are left as
\* they were.
C12_InvalidSubject ==
    /\ [](\A t \in Threads :
            pc[t] = "gates" =>
               \A tok \in Tokens :
                  (/\ tok.hdr = "ok"
                   /\ Has(loc[t].keys, tok.kid)
                   /\ JwtDecodeOk(tok, loc[t].keys[tok.kid], ClaimsAt(tok.claims, now), now)
                   /\ Has(tok.claims, "sub")
                   /\ ~HasAtWithSegments(tok.claims.sub))
                      => Gates(tok, loc[t].keys, now)
                            = Raise("RuntimeError", "Invalid email address", "sub"))
    /\ [][\A t \in Threads :
            EndsAtGate(t, "sub") =>
               /\ result'.kind = "error400" => result'.email = <<>>
               /\ result'.exc = "RuntimeError" => result'.kind = "error400"
               /\ NONCES' = NONCES /\ heap' = heap /\ spent' = spent]_vars

\* A request was refused for its subject while its nonce was in the registry
\* and unspent, and the nonce is still there.
C12_Witness ==
    /\ result.kind = "error400"
    /\ result.msg = "Invalid email address"
    /\ result.email = <<>>
    /\ \E n \in result.nonce : Has(heap[NONCES], n) /\ spent[n] = 0

\* The five claims the comment on lines 134-140 calls required.
RequiredClaims == {"aud", "iss", "exp", "iat", "sub"}

\* C13: a token with a parsable header, signed with RS256 by the key the
\* broker serves under its kid, that lacks one of aud, iss, exp, iat, sub
\* is refused at the gates with a RuntimeError (the verification failure
\* that verify() answers with the 400 page).
C13_RequiredClaims ==
    \A t \in Threads :
       pc[t] = "gates" =>
          \A tok \in Tokens :
             (/\ tok.hdr = "ok"
              /\ Has(loc[t].keys, tok.kid)
              /\ tok.alg = "RS256"
              /\ tok.sig = loc[t].keys[tok.kid]
              /\ \E k \in RequiredClaims : ~Has(tok.claims, k))
                 => LET out == Gates(tok, loc[t].keys, now)
                    IN  ~out.ok /\ out.exc = "RuntimeError"

\* The token with its exp claim set e seconds from the moment it is
\* presented.
WithExp(tok, e) == [tok EXCEPT !.claims = DictSet(tok.claims, "exp", e)]

LoginDone(n) ==
    /\ Has(issued, n)
    /\ \A t \in Threads : ~(pc[t] = "login_store" /\ Has(loc[t].mint, n))

\* Nonce n is in the dict the global NONCES names.
InRegistry(n) == Has(heap[NONCES], n)

\* C15: whatever the interleaving of logins and verifications, a nonce
\* whose login() has returned is in the registry as long as no verification
\* has consumed it and its expiry has not passed; and no verification ends
\* in the purge because the dict changed while it was iterated.
C15_NoLostNonce ==
    /\ \A n \in Nonces :
          (LoginDone(n) /\ spent[n] = 0 /\ issued[n] >= UtcNowTimestamp(now, tzOffset))
             => InRegistry(n)
    /\ result.gate # "purge"

PurgeBuildStep(t) == pc[t] = "purge_build" /\ pc'[t] = "purge_assign"

PurgeAssignStep(t) == pc[t] = "purge_assign" /\ pc'[t] = "pop_load"

\* C16: with requests handled one at a time, the dict the purge builds
\* holds exactly the entries of the registry whose expiry is not earlier
\* than now (the moment the purge reads the clock), each with its expiry
\* unchanged, and that dict becomes the registry; the pop that follows touches no entry but the token's own; and
\* whether the token's nonce is found depends only on its having been
\* minted, not consumed, and not expired now, so no earlier purge shows.
C16_PurgeExact ==
    /\ [][\A t \in Threads :
            PurgeBuildStep(t) =>
               LET d == heap[NONCES]
                   ts == UtcNowTimestamp(now, tzOffset)
                   b == loc'[t].built
                   p == loc[t].payload
               IN  /\ DOMAIN b \subseteq DOMAIN d
                   /\ \A k \in DOMAIN d :
                         /\ k \in DOMAIN b <=> ~(d[k] < ts)
                         /\ k \in DOMAIN b => b[k] = d[k]
                   /\ loc'[t].live <=>
                         /\ Has(p, "nonce")
                         /\ Has(issued, p.nonce)
                         /\ spent[p.nonce] = 0
                         /\ ~(issued[p.nonce] < ts)]_vars
    /\ [][\A t \in Threads :
            PurgeAssignStep(t) => heap'[NONCES'] = loc[t].built]_vars
    /\ [][\A t \in Threads :
            PopStep(t) =>
               \A k \in Nonces \ NonceOf(loc[t].payload) :
                  /\ Has(heap'[NONCES'], k) <=> Has(heap[NONCES], k)
                  /\ Has(heap[NONCES], k) => heap'[NONCES'][k] = heap[NONCES][k]]_vars

\* A purge has dropped an expired entry and kept an unexpired one.
C16_Witness ==
    \E t \in Threads :
       /\ pc[t] = "purge_assign"
       /\ loc[t].built # EmptyDict
       /\ DOMAIN loc[t].built # DOMAIN heap[NONCES]
       /\ \E k \in DOMAIN heap[NONCES] :
             heap[NONCES][k] < UtcNowTimestamp(now, tzOffset)

LoginStep(t) == pc[t] = "idle" /\ pc'[t] = "login_store"

LoginStoreStep(t) == pc[t] = "login_store" /\ pc'[t] = "idle"

\* C17: with requests handled one at a time, login() mints a nonce never
\* minted before with expiry = its clock reading + 1800 s (so not earlier
\* than its creation); its store adds that one entry to the registry, under
\* the nonce the redirect carries, and leaves every other entry as it was;
\* every entry of the registry carries the expiry it was minted with; and
\* no step other than login's store adds an entry.
C17_MintEffect ==
    /\ [][\A t \in Threads :
            LoginStep(t) =>
               \E n \in Nonces :
                  /\ ~Has(issued, n)
                  /\ DOMAIN issued' = DOMAIN issued \cup {n}
                  /\ issued'[n] = UtcNowTimestamp(now, tzOffset) + 1800
                  /\ issued'[n] >= UtcNowTimestamp(now, tzOffset)
                  /\ loc'[t].mint = DictSet(EmptyDict, n, issued'[n])
                  /\ NONCES' = NONCES /\ heap' = heap]_vars
    /\ [][\A t \in Threads :
            LoginStoreStep(t) =>
               \E n \in Nonces :
                  /\ result'.kind = "redirect" /\ result'.nonce = {n}
                  /\ ~InRegistry(n)
                  /\ NONCES' = NONCES
                  /\ DOMAIN heap'[NONCES] = DOMAIN heap[NONCES] \cup {n}
                  /\ heap'[NONCES][n] = issued[n]
                  /\ \A k \in DOMAIN heap[NONCES] : heap'[NONCES][k] = heap[NONCES][k]]_vars
    /\ [](\A n \in DOMAIN heap[NONCES] : Has(issued, n) /\ heap[NONCES][n] = issued[n])
    /\ [][(\A t \in Threads : ~LoginStoreStep(t))
             => DOMAIN heap'[NONCES'] \subseteq DOMAIN heap[NONCES]]_vars

\* The second login has stored its nonce next to the first one's entry.
C17_Witness ==
    /\ result.kind = "redirect"
    /\ \E n \in result.nonce : InRegistry(n) /\ heap[NONCES][n] = issued[n]
    /\ DictLen(heap[NONCES]) = 2

\* The gate at which a token stops between discovery and the purge, read
\* off the single checks in the order header, key, jwt.decode, subject;
\* "" when it passes them all.
FirstFailing(tok, keys, t) ==
    IF tok.hdr # "ok" THEN "header"
    ELSE IF ~Has(keys, tok.kid) THEN "kid"
    ELSE IF ~JwtDecodeOk(tok, keys[tok.kid], ClaimsAt(tok.claims, t), t) THEN "jwt"
    ELSE IF ~Has(tok.claims, "sub") \/ ~LooksLikeEmail(tok.claims.sub) THEN "sub"
    ELSE ""

\* C18 as stated: the header is the first gate, so a request whose token
\* has a header that cannot be parsed, or has no kid, ends at the header
\* gate whatever key discovery does.
C18_HeaderFirst ==
    result.hdr \in {"garbage", "nokid"} => result.gate = "header"

\* C18, amended: key discovery is the first gate; a request leaves it with
\* an error whenever one of its two fetches fails, whatever the token's
\* header is.  Only after both fetches succeeded come the header, the key
\* lookup, jwt.decode() (signature, algorithm, iat, nbf, exp, aud, iss) and
\* the subject check, and the error reported is that of the first of these
\* that fails; the purge and the nonce come last, after all of them passed.
C18_DiscoveryFirst ==
    /\ [](/\ (result.fetched # <<>> /\ result.fetched[Len(result.fetched)].got # "keys")
                => result.gate = "discovery"
          /\ result.gate \in {"header", "kid", "jwt", "sub", "purge", "nonce"}
                => result.fetched = <<Get("openid-configuration", "ok"),
                                      Get("jwks_uri", "keys")>>
          /\ \A t \in Threads :
                pc[t] = "gates" =>
                   \A tok \in Tokens :
                      LET out == Gates(tok, loc[t].keys, now)
                          g == FirstFailing(tok, loc[t].keys, now)
                      IN  /\ out.ok <=> g = ""
                          /\ ~out.ok => out.gate = g)
    /\ [][\A t \in Threads :
            /\ result'.gate \in {"purge", "nonce"} /\ pc'[t] # pc[t]
                  => pc[t] \in {"purge_build", "pop"}
            /\ pc[t] = "gates" /\ pc'[t] = "purge_iter"
                  => \E tok \in Tokens :
                        /\ FirstFailing(tok, loc[t].keys, now) = ""
                        /\ loc'[t].payload = Rest(ClaimsAt(tok.claims, now))]_vars

\* A request whose token has an unparsable header ended with the error of
\* key discovery.
C18_Witness ==
    /\ result.hdr = "garbage"
    /\ result.gate = "discovery"
    /\ result.kind \in {"error400", "unhandled"}

\* C19: when both fetches succeeded and the JWK Set has a keys array,
\* discover_keys() returns: no request whose two GETs were answered that
\* way ends with an error of key discovery, whatever algorithms the
\* entries declare or omit.
C19_FilterNoError ==
    (Len(result.fetched) = 2 /\ result.fetched[2].got = "keys")
       => result.gate # "discovery"

\* C20: a call that has reached the token gates made both GETs of key
\* discovery itself and looks kids up in exactly the key set those GETs
\* returned; so a token naming a kid that discover_keys() returned to some
\* call but not to this one ends with the unknown-key error.
C20_NoKeyState ==
    \A t \in Threads :
       pc[t] = "gates" =>
          /\ loc[t].fetched = <<Get("openid-configuration", "ok"), Get("jwks_uri", "keys")>>
          /\ DOMAIN loc[t].keys = loc[t].got
          /\ \A tok \in Tokens :
                (tok.hdr = "ok" /\ tok.kid \in served \ loc[t].got)
                   => Gates(tok, loc[t].keys, now)
                         = Raise("RuntimeError", "Cannot find key with ID", "kid")

\* A later verification stands before the gates without key k1, which
\* discover_keys() returned to another verification.
C20_Witness ==
    /\ nreq >= 2
    /\ "k1" \in served
    /\ \E t \in Threads : pc[t] = "gates" /\ "k1" \notin loc[t].got
====
